---- MODULE Spec2Model ----
(***************************************************************************)
(* A model of the r*-tree of src/src/rtree.rs.                             *)
(*                                                                         *)
(* The stored objects are 2-dimensional points with integer-valued         *)
(* coordinates (Point2, as in the tests of rtree.rs): the minimal bounding *)
(* rectangle of a point is the degenerate rectangle at the point, a point  *)
(* contains exactly itself, and its squared distance to a query point is   *)
(* the squared euclidean distance.  All scalar arithmetic is exact.        *)
(*                                                                         *)
(* A node is a record: a leaf [kind |-> "Leaf", obj |-> t] or a directory  *)
(* [kind |-> "Dir", bounding_box, children, depth].  An Option<X> is a     *)
(* sequence of length at most one: <<>> is None and <<x>> is Some(x).      *)
(* A Vec is a sequence; the rust index i is the TLA+ index i + 1.          *)
(***************************************************************************)
EXTENDS Integers, Sequences, FiniteSets, TLC

VARIABLES
    options,    \* RTreeOptions shared by every node of the tree
    root,       \* RTree.root : DirectoryNodeData
    size,       \* RTree.size
    ret,        \* the last call: its name, its argument and what it returned
    panicked    \* TRUE once a call has panicked (the program has aborted)

vars == <<options, root, size, ret, panicked>>

(***************************************************************************)
(* Bounds of the model.                                                    *)
(***************************************************************************)
\* the largest max_size of the options the tree is built with
MaxFanout == 3
\* insert is called only while fewer than MaxObjects objects are stored
MaxObjects == 4

\* the objects the caller inserts and removes
Objects == { <<0, 0>>, <<3, 0>>, <<0, 2>> }

\* the points the caller queries, and removes the objects at
Points == Objects \cup { <<1, 0>>, <<0, 1>> }

\* the largest n of nearest_n_neighbors(q, n)
MaxNeighbors == 2
NeighborCounts == 0 .. MaxNeighbors

\* the squared radii of lookup_in_circle
Radii2 == { 0, 4, 5 }

\* the objects inserted where objects with an extent matter: two points and
\* the edge from (0, 0) to (3, 0), which contains one of them
ExtentObjects == { <<0, 0>>, <<0, 2>>, <<0, 0, 3, 0>> }

\* the rectangles queried, [lower, upper] with lower <= upper on every axis
QueryRects ==
    { [lower |-> <<0, 0>>, upper |-> <<0, 0>>],
      [lower |-> <<1, 0>>, upper |-> <<3, 1>>],
      [lower |-> <<0, 1>>, upper |-> <<1, 2>>],
      [lower |-> <<1, 1>>, upper |-> <<2, 2>>] }

\* the largest value passed to a setter of RTreeOptions
MaxOptionSize == 7
OptionSizes == 0 .. MaxOptionSize

\* the most calls of next() made on an iterator after it returned None
MaxExhausted == 2

None == << >>
Some(x) == << x >>
is_some(o) == Len(o) > 0
unwrap(o) == o[1]

\* the last index of a Vec, as a TLA+ index
Last(s) == s[Len(s)]
\* Vec::remove(i) with i a TLA+ index
RemoveAt(s, i) == SubSeq(s, 1, i - 1) \o SubSeq(s, i + 1, Len(s))

(***************************************************************************)
(* Scalars, points and bounding rectangles (the collaborators of           *)
(* rtree.rs: point_traits, boundingvolume, traits).                        *)
(***************************************************************************)
Dimensions == 2
Axes == 1 .. Dimensions

Abs(x) == IF x < 0 THEN -x ELSE x
Min2(a, b) == IF a < b THEN a ELSE b
Max2(a, b) == IF a > b THEN a ELSE b

\* (p - q).length2()
length2(p, q) == (p[1] - q[1]) * (p[1] - q[1]) + (p[2] - q[2]) * (p[2] - q[2])

Rect(lo, up) == [lower |-> lo, upper |-> up]

\* BoundingRect::add_rect
add_rect(a, b) ==
    Rect(<<Min2(a.lower[1], b.lower[1]), Min2(a.lower[2], b.lower[2])>>,
         <<Max2(a.upper[1], b.upper[1]), Max2(a.upper[2], b.upper[2])>>)

\* BoundingRect::contains_point
contains_point(r, p) ==
    \A i \in Axes : r.lower[i] <= p[i] /\ p[i] <= r.upper[i]

\* BoundingRect::contains_rect
contains_rect(r, s) ==
    \A i \in Axes : r.lower[i] <= s.lower[i] /\ s.upper[i] <= r.upper[i]

\* BoundingRect::intersects
intersects(r, s) ==
    \A i \in Axes : r.lower[i] <= s.upper[i] /\ s.lower[i] <= r.upper[i]

\* BoundingRect::area
area(r) == (r.upper[1] - r.lower[1]) * (r.upper[2] - r.lower[2])

\* area of BoundingRect::intersect (zero when the rectangles are disjoint)
intersect_area(r, s) ==
    LET w == Min2(r.upper[1], s.upper[1]) - Max2(r.lower[1], s.lower[1])
        h == Min2(r.upper[2], s.upper[2]) - Max2(r.lower[2], s.lower[2])
    IN  IF w < 0 \/ h < 0 THEN 0 ELSE w * h

\* BoundingRect::half_margin
half_margin(r) == (r.upper[1] - r.lower[1]) + (r.upper[2] - r.lower[2])

\* BoundingRect::min_dist2
min_dist2(r, p) ==
    LET d(i) == IF p[i] < r.lower[i] THEN r.lower[i] - p[i]
                ELSE IF p[i] > r.upper[i] THEN p[i] - r.upper[i]
                ELSE 0
    IN  d(1) * d(1) + d(2) * d(2)

\* BoundingRect::min_max_dist2 (MINMAXDIST)
min_max_dist2(r, p) ==
    LET near(i) == Min2(Abs(r.lower[i] - p[i]), Abs(r.upper[i] - p[i]))
        far(i) == Max2(Abs(r.lower[i] - p[i]), Abs(r.upper[i] - p[i]))
    IN  Min2(far(1) * far(1) + near(2) * near(2),
             near(1) * near(1) + far(2) * far(2))

\* twice BoundingRect::center (the doubling keeps the arithmetic exact)
center2(r) == <<r.lower[1] + r.upper[1], r.lower[2] + r.upper[2]>>

\* an object is a point <<x, y>> or an axis-parallel edge <<x1, y1, x2, y2>>
\* from (x1, y1) to (x2, y2), x1 <= x2 and y1 <= y2
IsPoint(t) == Len(t) = 2

\* SpatialObject for a point and for an edge: mbr, distance2, contains
obj_mbr(t) ==
    IF IsPoint(t) THEN Rect(t, t) ELSE Rect(<<t[1], t[2]>>, <<t[3], t[4]>>)
distance2(t, p) ==
    IF IsPoint(t) THEN length2(t, p) ELSE min_dist2(obj_mbr(t), p)
obj_contains(t, p) ==
    IF IsPoint(t) THEN t = p ELSE contains_point(obj_mbr(t), p)

(***************************************************************************)
(* Nodes.                                                                  *)
(***************************************************************************)
Leaf(t) == [kind |-> "Leaf", obj |-> t]
IsLeaf(n) == n.kind = "Leaf"

\* DirectoryNodeData::new
DirectoryNodeData_new(depth) ==
    [kind |-> "Dir", bounding_box |-> None, children |-> << >>, depth |-> depth]

\* RTreeNode::depth
node_depth(n) == IF IsLeaf(n) THEN 0 ELSE n.depth

\* RTreeNode::mbr (and DirectoryNodeData::mbr): the unwrap fails on None
node_mbr(n) == IF IsLeaf(n) THEN obj_mbr(n.obj) ELSE unwrap(n.bounding_box)

RECURSIVE union_mbr(_, _, _)
\* the fold of add_rect over children[i ..] starting from acc
union_mbr(children, i, acc) ==
    IF i > Len(children) THEN acc
    ELSE union_mbr(children, i + 1, add_rect(acc, node_mbr(children[i])))

\* the exact union of the minimal bounding rectangles of a non-empty Vec
mbr_of(children) == union_mbr(children, 2, node_mbr(children[1]))

\* DirectoryNodeData::update_mbr
update_mbr(self) ==
    IF Len(self.children) > 0
    THEN [self EXCEPT !.bounding_box = Some(mbr_of(self.children))]
    ELSE [self EXCEPT !.bounding_box = None]

\* an update_mbr_with_element that leaves a box that is already cached as it is
update_mbr_with_element_kept(self, element_bb) ==
    IF is_some(self.bounding_box)
    THEN self
    ELSE [self EXCEPT !.bounding_box = Some(element_bb)]

\* DirectoryNodeData::update_mbr_with_element
update_mbr_with_element(self, element_bb) ==
    IF is_some(self.bounding_box)
    THEN [self EXCEPT !.bounding_box = Some(add_rect(unwrap(self.bounding_box), element_bb))]
    ELSE [self EXCEPT !.bounding_box = Some(element_bb)]

\* DirectoryNodeData::add_children
add_children(self, new_children) ==
    IF is_some(self.bounding_box)
    THEN [self EXCEPT
            !.bounding_box = Some(union_mbr(new_children, 1, unwrap(self.bounding_box))),
            !.children = self.children \o new_children]
    ELSE IF Len(new_children) > 0
    THEN [self EXCEPT
            !.bounding_box = Some(mbr_of(new_children)),
            !.children = self.children \o new_children]
    ELSE [self EXCEPT !.children = self.children \o new_children]

(***************************************************************************)
(* Sorting and tuple comparison.                                           *)
(***************************************************************************)
\* slice::sort_by on a key: a stable sort of s by keys, keys[i] the key of s[i]
StableSort(s, keys) ==
    LET n == Len(s)
        rank(i) == 1 + Cardinality({m \in 1 .. n :
                        keys[m] < keys[i] \/ (keys[m] = keys[i] /\ m < i)})
    IN  [j \in 1 .. n |-> s[CHOOSE i \in 1 .. n : rank(i) = j]]

\* (a1, a2) < (b1, b2) on tuples
LexLess2(a, b) == a[1] < b[1] \/ (a[1] = b[1] /\ a[2] < b[2])

\* (a1, a2, a3) < (b1, b2, b3) on tuples
LexLess3(a, b) ==
    \/ a[1] < b[1]
    \/ (a[1] = b[1] /\ a[2] < b[2])
    \/ (a[1] = b[1] /\ a[2] = b[2] /\ a[3] < b[3])

\* children.sort_by(lower().nth(axis)): axis is a TLA+ index
sort_along(children, axis) ==
    StableSort(children, [i \in 1 .. Len(children) |-> node_mbr(children[i]).lower[axis]])

(***************************************************************************)
(* InsertionState: the per-depth reinsertion flags of one top-level        *)
(* insert.  reinsertions[d + 1] is the flag of depth d.                    *)
(***************************************************************************)
\* InsertionState::new
InsertionState_new(max_depth) == [i \in 1 .. max_depth |-> FALSE]

\* the index check of reinsertions[depth]
in_bounds(state, depth) == depth + 1 <= Len(state)

\* a flag vector that never reports a reinsertion
did_reinsert_never(state, depth) == FALSE

\* InsertionState::did_reinsert
did_reinsert(state, depth) == state[depth + 1]

\* InsertionState::mark_reinsertion
mark_reinsertion(state, depth) == [state EXCEPT ![depth + 1] = TRUE]

(***************************************************************************)
(* Split and forced reinsertion.                                           *)
(***************************************************************************)
\* half_margin(MBR(left)) + half_margin(MBR(right)) for the partition at k
margin_value(children, k) ==
    half_margin(mbr_of(SubSeq(children, 1, k)))
        + half_margin(mbr_of(SubSeq(children, k + 1, Len(children))))

RECURSIVE split_axis_scan(_, _, _, _, _, _)
\* the two nested loops of get_split_axis, at (axis, k) with the children as
\* sorted so far; axis is the rust axis, 0-based
split_axis_scan(self, children, axis, k, best_axis, best_goodness) ==
    IF axis >= Dimensions
    THEN [axis |-> best_axis, children |-> children]
    ELSE IF k > Len(children) - options.min_size
    THEN \* next axis: sort the children along it
         IF axis + 1 < Dimensions
         THEN split_axis_scan(self, sort_along(children, axis + 2), axis + 1,
                              options.min_size, best_axis, best_goodness)
         ELSE [axis |-> best_axis, children |-> children]
    ELSE LET m == margin_value(children, k)
         IN  IF best_goodness > m \/ axis = 0
             THEN split_axis_scan(self, children, axis, k + 1, axis, m)
             ELSE split_axis_scan(self, children, axis, k + 1, best_axis, best_goodness)

\* DirectoryNodeData::get_split_axis: the axis (0-based) and the children as
\* the sorting leaves them
get_split_axis(self) ==
    split_axis_scan(self, sort_along(self.children, 1), 0, options.min_size, 0, 0)

\* (overlap_value, area_value) of the partition at k
split_goodness(children, k) ==
    LET first_mbr == mbr_of(SubSeq(children, 1, k))
        second_mbr == mbr_of(SubSeq(children, k + 1, Len(children)))
    IN  <<intersect_area(first_mbr, second_mbr), area(first_mbr) + area(second_mbr)>>

RECURSIVE split_index_scan(_, _, _, _)
\* the loop of split over k
split_index_scan(children, k, best, best_index) ==
    IF k > Len(children) - options.min_size
    THEN best_index
    ELSE LET new_best == split_goodness(children, k)
         IN  IF LexLess2(new_best, best) \/ k = options.min_size
             THEN split_index_scan(children, k + 1, new_best, k)
             ELSE split_index_scan(children, k + 1, best, best_index)

\* DirectoryNodeData::split: the node that stays and the node split off
split(self) ==
    LET ax == get_split_axis(self)
        sorted == sort_along(ax.children, ax.axis + 1)
        best_index == split_index_scan(sorted, options.min_size, <<0, 0>>, options.min_size)
        offsplit == SubSeq(sorted, best_index + 1, Len(sorted))
    IN  [node |-> update_mbr([self EXCEPT !.children = SubSeq(sorted, 1, best_index)]),
         offsplit |-> update_mbr([kind |-> "Dir", bounding_box |-> None,
                                  children |-> offsplit, depth |-> self.depth])]

\* a reinsert that hands back one ejected child fewer than it detaches
reinsert_lossy(self) ==
    LET center == center2(node_mbr(self))
        keys == [i \in 1 .. Len(self.children) |->
                    length2(center2(node_mbr(self.children[i])), center)]
        sorted == StableSort(self.children, keys)
        num_children == Len(sorted)
        keep == num_children - options.reinsertion_count
    IN  [node |-> update_mbr([self EXCEPT !.children = SubSeq(sorted, 1, keep)]),
         nodes |-> SubSeq(sorted, keep + 2, num_children)]

\* DirectoryNodeData::reinsert: the node that stays and the children ejected
reinsert(self) ==
    LET center == center2(node_mbr(self))
        keys == [i \in 1 .. Len(self.children) |->
                    length2(center2(node_mbr(self.children[i])), center)]
        sorted == StableSort(self.children, keys)
        num_children == Len(sorted)
        keep == num_children - options.reinsertion_count
    IN  [node |-> update_mbr([self EXCEPT !.children = SubSeq(sorted, 1, keep)]),
         nodes |-> SubSeq(sorted, keep + 1, num_children)]

\* InsertionResult
Complete == [tag |-> "Complete", nodes |-> << >>]
Split(node) == [tag |-> "Split", nodes |-> <<node>>]
Reinsert(nodes) == [tag |-> "Reinsert", nodes |-> nodes]
\* a panic that unwinds through the insertion
Panic == [tag |-> "Panic", nodes |-> << >>]

\* DirectoryNodeData::resolve_overflow
resolve_overflow(self, state) ==
    IF Len(self.children) > options.max_size
    THEN IF ~in_bounds(state, self.depth)
         THEN [node |-> self, res |-> Panic, state |-> state]
         ELSE IF did_reinsert(state, self.depth)
         THEN LET s == split(self)
              IN  [node |-> s.node, res |-> Split(s.offsplit), state |-> state]
         ELSE LET r == reinsert(self)
              IN  [node |-> r.node, res |-> Reinsert(r.nodes),
                   state |-> mark_reinsertion(state, self.depth)]
    ELSE [node |-> self, res |-> Complete, state |-> state]

(***************************************************************************)
(* Insertion.                                                              *)
(***************************************************************************)
RECURSIVE inclusion_scan(_, _, _, _, _, _)
\* the first loop of choose_subtree from child index onwards (TLA+ indices;
\* min_index 0 while first is TRUE)
inclusion_scan(children, insertion_mbr, index, inclusion_count, min_area, min_index) ==
    IF index > Len(children)
    THEN [inclusion_count |-> inclusion_count, min_index |-> min_index]
    ELSE LET mbr == node_mbr(children[index])
         IN  IF contains_rect(mbr, insertion_mbr)
             THEN IF area(mbr) < min_area \/ inclusion_count = 0
                  THEN inclusion_scan(children, insertion_mbr, index + 1,
                                      inclusion_count + 1, area(mbr), index)
                  ELSE inclusion_scan(children, insertion_mbr, index + 1,
                                      inclusion_count + 1, min_area, min_index)
             ELSE inclusion_scan(children, insertion_mbr, index + 1,
                                 inclusion_count, min_area, min_index)

RECURSIVE overlap_sum(_, _, _, _)
\* the sum over child2 # child1 of area(r /\ child2.mbr), from index i onwards
overlap_sum(children, index1, r, i) ==
    IF i > Len(children) THEN 0
    ELSE (IF i = index1 THEN 0 ELSE intersect_area(r, node_mbr(children[i])))
            + overlap_sum(children, index1, r, i + 1)

\* (overlap_increase, area_increase, area) of the child at index
subtree_cost(self, insertion_mbr, index) ==
    LET mbr == node_mbr(self.children[index])
        new_mbr == add_rect(mbr, insertion_mbr)
        all_leaves == self.depth <= 2
        overlap_increase ==
            IF all_leaves
            THEN overlap_sum(self.children, index, new_mbr, 1)
                    - overlap_sum(self.children, index, mbr, 1)
            ELSE 0
    IN  <<overlap_increase, area(new_mbr) - area(mbr), area(new_mbr)>>

RECURSIVE cost_scan(_, _, _, _, _)
\* the second loop of choose_subtree from child index onwards
cost_scan(self, insertion_mbr, index, min, min_index) ==
    IF index > Len(self.children)
    THEN min_index
    ELSE LET new_min == subtree_cost(self, insertion_mbr, index)
         IN  IF LexLess3(new_min, min) \/ index = 1
             THEN cost_scan(self, insertion_mbr, index + 1, new_min, index)
             ELSE cost_scan(self, insertion_mbr, index + 1, min, min_index)

\* DirectoryNodeData::choose_subtree: the TLA+ index of the child to follow,
\* or 0 when the call panics (an assertion fails, or the child is a leaf)
choose_subtree(self, node) ==
    IF self.depth < 2 \/ Len(self.children) = 0
    THEN 0
    ELSE LET insertion_mbr == node_mbr(node)
             incl == inclusion_scan(self.children, insertion_mbr, 1, 0, 0, 1)
             min_index == IF incl.inclusion_count = 0
                          THEN cost_scan(self, insertion_mbr, 1, <<0, 0, 0>>, 1)
                          ELSE incl.min_index
         IN  IF IsLeaf(self.children[min_index]) THEN 0 ELSE min_index

RECURSIVE DirectoryNodeData_insert(_, _, _)
\* the match on expand of DirectoryNodeData::insert, self holding the child
\* the insertion went into
insert_expanded(self, expand) ==
    CASE expand.res.tag = "Split" ->
            resolve_overflow(add_children(self, expand.res.nodes), expand.state)
      [] expand.res.tag = "Reinsert" ->
            [node |-> update_mbr(self), res |-> expand.res, state |-> expand.state]
      [] OTHER ->
            [node |-> self, res |-> expand.res, state |-> expand.state]

\* DirectoryNodeData::insert once follow.insert(t, state) has returned expand,
\* follow the TLA+ index of the child followed
insert_followed(self, follow, expand) ==
    insert_expanded([self EXCEPT !.children[follow] = expand.node], expand)

\* follow.insert(t, state) of DirectoryNodeData::insert and what comes after
\* it, follow the TLA+ index choose_subtree returned (0 when it panicked)
insert_follow(self, t, state, follow) ==
    IF follow = 0
    THEN [node |-> self, res |-> Panic, state |-> state]
    ELSE insert_followed(self, follow,
                         DirectoryNodeData_insert(self.children[follow], t, state))

\* DirectoryNodeData::insert after the mbr of self was adjusted
insert_adjusted(self, t, state) ==
    IF node_depth(t) + 1 = self.depth
    THEN resolve_overflow(add_children(self, <<t>>), state)
    ELSE insert_follow(self, t, state, choose_subtree(self, t))

\* DirectoryNodeData::insert: the node afterwards, the InsertionResult and the
\* InsertionState afterwards
DirectoryNodeData_insert(self, t, state) ==
    insert_adjusted(update_mbr_with_element(self, node_mbr(t)), t, state)

\* a root that grows without increasing its depth
grow_root_same_depth(old_root, nodes) ==
    add_children(DirectoryNodeData_new(old_root.depth), <<old_root>> \o nodes)

\* the Split arm of RTree::insert: the root was split, a new root one level
\* higher takes the old root and the node split off
grow_root(old_root, nodes) ==
    add_children(DirectoryNodeData_new(old_root.depth + 1), <<old_root>> \o nodes)

\* the match of RTree::insert on what root.insert returned: the root
\* afterwards, the insertion_stack afterwards, the InsertionState, and whether
\* the call panicked
insert_match(done, rest) ==
    CASE done.res.tag = "Split" ->
            [root |-> grow_root(done.node, done.res.nodes),
             insertion_stack |-> rest, state |-> done.state, panicked |-> FALSE]
      [] done.res.tag = "Reinsert" ->
            [root |-> done.node, insertion_stack |-> rest \o done.res.nodes,
             state |-> done.state, panicked |-> FALSE]
      [] done.res.tag = "Panic" ->
            [root |-> done.node, insertion_stack |-> rest, state |-> done.state,
             panicked |-> TRUE]
      [] OTHER ->
            [root |-> done.node, insertion_stack |-> rest, state |-> done.state,
             panicked |-> FALSE]

\* one turn of the loop of RTree::insert: pop the insertion_stack and insert
\* what was popped at the root
insert_next(r, insertion_stack, state) ==
    insert_match(DirectoryNodeData_insert(r, Last(insertion_stack), state),
                 SubSeq(insertion_stack, 1, Len(insertion_stack) - 1))

RECURSIVE insertion_loop(_)
\* the loop of RTree::insert from the state step of it: the root when the
\* stack is empty, and whether the call panicked
insertion_loop(step) ==
    IF step.panicked \/ Len(step.insertion_stack) = 0
    THEN [root |-> step.root, panicked |-> step.panicked]
    ELSE insertion_loop(insert_next(step.root, step.insertion_stack, step.state))

\* RTree::insert
RTree_insert(r, t) ==
    insertion_loop([root |-> r, insertion_stack |-> <<Leaf(t)>>,
                    state |-> InsertionState_new(r.depth + 1), panicked |-> FALSE])

(***************************************************************************)
(* Removal.                                                                *)
(***************************************************************************)
RECURSIVE DirectoryNodeData_remove(_, _)
RECURSIVE remove_scan(_, _, _)
\* the loop of DirectoryNodeData::remove over the children from index
\* onwards: the children afterwards, result, and remove_index (0 for None)
remove_scan(children, to_remove, index) ==
    IF index > Len(children)
    THEN [children |-> children, result |-> FALSE, remove_index |-> 0]
    ELSE LET child == children[index]
         IN  IF IsLeaf(child)
             THEN IF child.obj = to_remove
                  THEN [children |-> children, result |-> TRUE, remove_index |-> index]
                  ELSE remove_scan(children, to_remove, index + 1)
             ELSE LET sub == DirectoryNodeData_remove(child, to_remove)
                      after == [children EXCEPT ![index] = sub.node]
                  IN  IF sub.result
                      THEN [children |-> after, result |-> TRUE,
                            remove_index |->
                                IF Len(sub.node.children) = 0 THEN index ELSE 0]
                      ELSE remove_scan(after, to_remove, index + 1)

\* DirectoryNodeData::remove: the node afterwards and the value returned
DirectoryNodeData_remove(self, to_remove) ==
    IF is_some(self.bounding_box)
        /\ contains_rect(unwrap(self.bounding_box), obj_mbr(to_remove))
    THEN LET scan == remove_scan(self.children, to_remove, 1)
         IN  IF scan.remove_index # 0
             THEN [node |-> update_mbr([self EXCEPT
                        !.children = RemoveAt(scan.children, scan.remove_index)]),
                   result |-> scan.result]
             ELSE [node |-> [self EXCEPT !.children = scan.children],
                   result |-> scan.result]
    ELSE [node |-> self, result |-> FALSE]

RECURSIVE DirectoryNodeData_lookup_and_remove(_, _)
RECURSIVE drain_scan(_, _, _, _, _)
\* the loop of DirectoryNodeData::lookup_and_remove over the drained children
\* from index onwards: the children kept so far and the result so far
drain_scan(drained, point, index, kept, result) ==
    IF index > Len(drained)
    THEN [children |-> kept, result |-> result]
    ELSE LET child == drained[index]
         IN  IF IsLeaf(child)
             THEN IF obj_contains(child.obj, point)
                  THEN drain_scan(drained, point, index + 1, kept, Some(child.obj))
                  ELSE drain_scan(drained, point, index + 1, Append(kept, child), result)
             ELSE LET sub == DirectoryNodeData_lookup_and_remove(child, point)
                      \* Option::or
                      new_result == IF is_some(sub.result) THEN sub.result ELSE result
                  IN  IF Len(sub.node.children) # 0
                      THEN drain_scan(drained, point, index + 1,
                                      Append(kept, sub.node), new_result)
                      ELSE drain_scan(drained, point, index + 1, kept, new_result)

\* DirectoryNodeData::lookup_and_remove: the node afterwards and the Option
\* returned
DirectoryNodeData_lookup_and_remove(self, point) ==
    IF is_some(self.bounding_box) /\ contains_point(unwrap(self.bounding_box), point)
    THEN LET scan == drain_scan(self.children, point, 1, << >>, None)
             after == [self EXCEPT !.children = scan.children]
         IN  [node |-> IF is_some(scan.result) THEN update_mbr(after) ELSE after,
              result |-> scan.result]
    ELSE [node |-> self, result |-> None]

\* a root that keeps its depth when its last child is gone
reset_depth_never(r) == r

\* the reset of root.depth in RTree::remove and RTree::lookup_and_remove
reset_depth(r) == IF Len(r.children) = 0 THEN [r EXCEPT !.depth = 1] ELSE r

\* a remove that decrements size whether or not an object was removed
RTree_remove_uncounted(r, sz, obj) ==
    IF sz = 0
    THEN [root |-> r, size |-> sz, result |-> FALSE]
    ELSE LET done == DirectoryNodeData_remove(r, obj)
         IN  [root |-> reset_depth(done.node),
              size |-> sz - 1,
              result |-> done.result]

\* RTree::remove: root, size and the value returned
RTree_remove(r, sz, obj) ==
    IF sz = 0
    THEN [root |-> r, size |-> sz, result |-> FALSE]
    ELSE LET done == DirectoryNodeData_remove(r, obj)
         IN  [root |-> reset_depth(done.node),
              size |-> IF done.result THEN sz - 1 ELSE sz,
              result |-> done.result]

\* a lookup_and_remove that leaves size as it is
RTree_lookup_and_remove_uncounted(r, sz, query_point) ==
    IF sz > 0
    THEN LET done == DirectoryNodeData_lookup_and_remove(r, query_point)
         IN  IF is_some(done.result)
             THEN [root |-> reset_depth(done.node), size |-> sz,
                   result |-> done.result]
             ELSE [root |-> done.node, size |-> sz, result |-> done.result]
    ELSE [root |-> r, size |-> sz, result |-> None]

\* RTree::lookup_and_remove: root, size and the Option returned
RTree_lookup_and_remove(r, sz, query_point) ==
    IF sz > 0
    THEN LET done == DirectoryNodeData_lookup_and_remove(r, query_point)
         IN  IF is_some(done.result)
             THEN [root |-> reset_depth(done.node), size |-> sz - 1,
                   result |-> done.result]
             ELSE [root |-> done.node, size |-> sz, result |-> done.result]
    ELSE [root |-> r, size |-> sz, result |-> None]

(***************************************************************************)
(* Queries.                                                                *)
(***************************************************************************)
RECURSIVE smallest_min_max_scan(_, _, _, _)
\* the first loop of nearest_neighbor and nearest_neighbors from index onwards
smallest_min_max_scan(children, point, index, smallest_min_max) ==
    IF index > Len(children)
    THEN smallest_min_max
    ELSE LET new_min == min_max_dist2(node_mbr(children[index]), point)
         IN  smallest_min_max_scan(children, point, index + 1,
                 IF index = 1 THEN new_min ELSE Min2(smallest_min_max, new_min))

\* the subsequence of s at the indices that satisfy keep, in order
RECURSIVE Filter(_, _, _)
Filter(s, keep, index) ==
    IF index > Len(s) THEN << >>
    ELSE (IF keep[index] THEN <<s[index]>> ELSE << >>) \o Filter(s, keep, index + 1)

RECURSIVE DirectoryNodeData_nearest_neighbor(_, _, _)
RECURSIVE nearest_scan(_, _, _, _, _)
\* RTreeNode::nearest_neighbor: Option of the object found
RTreeNode_nearest_neighbor(node, point, nearest_distance) ==
    IF IsLeaf(node)
    THEN IF ~is_some(nearest_distance)
            \/ distance2(node.obj, point) < unwrap(nearest_distance)
         THEN Some(node.obj)
         ELSE None
    ELSE DirectoryNodeData_nearest_neighbor(node, point, nearest_distance)

\* the last loop of DirectoryNodeData::nearest_neighbor over sorted from index
\* onwards
nearest_scan(sorted, point, index, nearest_distance, nearest) ==
    IF index > Len(sorted)
    THEN nearest
    ELSE LET child == sorted[index]
             min_dist == min_dist2(node_mbr(child), point)
         IN  IF is_some(nearest_distance) /\ min_dist > unwrap(nearest_distance)
             THEN nearest
             ELSE LET found == RTreeNode_nearest_neighbor(child, point, nearest_distance)
                  IN  IF is_some(found)
                      THEN nearest_scan(sorted, point, index + 1,
                                        Some(distance2(unwrap(found), point)), found)
                      ELSE nearest_scan(sorted, point, index + 1,
                                        nearest_distance, nearest)

\* DirectoryNodeData::nearest_neighbor
DirectoryNodeData_nearest_neighbor(self, point, nearest_distance) ==
    LET n == Len(self.children)
        smallest_min_max == smallest_min_max_scan(self.children, point, 1, 0)
        dist == [i \in 1 .. n |-> min_dist2(node_mbr(self.children[i]), point)]
        keep == [i \in 1 .. n |-> dist[i] <= smallest_min_max]
        sorted == StableSort(Filter(self.children, keep, 1), Filter(dist, keep, 1))
    IN  nearest_scan(sorted, point, 1, nearest_distance, None)

\* RTree::nearest_neighbor
RTree_nearest_neighbor(r, sz, query_point) ==
    IF sz > 0 THEN DirectoryNodeData_nearest_neighbor(r, query_point, None) ELSE None

\* a leaf arm that takes an object only when it is strictly closer
leaf_nearest_neighbors_strict(t, distance, nearest_distance, result) ==
    IF is_some(nearest_distance)
    THEN IF distance < unwrap(nearest_distance)
         THEN [nearest |-> Some(distance), result |-> <<t>>]
         ELSE [nearest |-> None, result |-> result]
    ELSE [nearest |-> Some(distance), result |-> Append(result, t)]

\* the Leaf arm of RTreeNode::nearest_neighbors, distance being
\* t.distance2(point)
leaf_nearest_neighbors(t, distance, nearest_distance, result) ==
    IF is_some(nearest_distance)
    THEN IF distance <= unwrap(nearest_distance)
         THEN [nearest |-> Some(distance),
               result |-> Append(IF distance < unwrap(nearest_distance)
                                 THEN << >> ELSE result, t)]
         ELSE [nearest |-> None, result |-> result]
    ELSE [nearest |-> Some(distance), result |-> Append(result, t)]

RECURSIVE DirectoryNodeData_nearest_neighbors(_, _, _, _)
RECURSIVE neighbors_scan(_, _, _, _, _, _)
\* RTreeNode::nearest_neighbors: the Option returned and the result Vec
RTreeNode_nearest_neighbors(node, point, nearest_distance, result) ==
    IF IsLeaf(node)
    THEN leaf_nearest_neighbors(node.obj, distance2(node.obj, point),
                                nearest_distance, result)
    ELSE DirectoryNodeData_nearest_neighbors(node, point, nearest_distance, result)

\* the last loop of DirectoryNodeData::nearest_neighbors from index onwards
neighbors_scan(sorted, point, smallest_min_max, index, nearest_distance, result) ==
    IF index > Len(sorted)
    THEN [nearest |-> nearest_distance, result |-> result]
    ELSE LET child == sorted[index]
             min_dist == min_dist2(node_mbr(child), point)
         IN  IF min_dist > smallest_min_max
                \/ (is_some(nearest_distance) /\ min_dist > unwrap(nearest_distance))
             THEN neighbors_scan(sorted, point, smallest_min_max, index + 1,
                                 nearest_distance, result)
             ELSE LET sub == RTreeNode_nearest_neighbors(child, point,
                                                         nearest_distance, result)
                  IN  neighbors_scan(sorted, point, smallest_min_max, index + 1,
                          IF is_some(sub.nearest) THEN sub.nearest ELSE nearest_distance,
                          sub.result)

\* DirectoryNodeData::nearest_neighbors
DirectoryNodeData_nearest_neighbors(self, point, nearest_distance, result) ==
    LET n == Len(self.children)
        smallest_min_max == smallest_min_max_scan(self.children, point, 1, 0)
        dist == [i \in 1 .. n |-> min_dist2(node_mbr(self.children[i]), point)]
        sorted == StableSort(self.children, dist)
    IN  neighbors_scan(sorted, point, smallest_min_max, 1, nearest_distance, result)

\* RTree::nearest_neighbors
RTree_nearest_neighbors(r, sz, query_point) ==
    IF sz > 0
    THEN DirectoryNodeData_nearest_neighbors(r, query_point, None, << >>).result
    ELSE << >>

\* a test that also accepts an object on the circle
in_circle_closed(t, origin, radius2) == distance2(t, origin) <= radius2

\* the test of the Leaf arm of DirectoryNodeData::lookup_in_circle
in_circle(t, origin, radius2) == distance2(t, origin) < radius2

RECURSIVE DirectoryNodeData_lookup_in_circle(_, _, _, _, _)
\* DirectoryNodeData::lookup_in_circle from child index onwards: the result Vec
DirectoryNodeData_lookup_in_circle(self, result, origin, radius2, index) ==
    IF index > Len(self.children)
    THEN result
    ELSE LET child == self.children[index]
         IN  IF min_dist2(node_mbr(child), origin) <= radius2
             THEN IF IsLeaf(child)
                  THEN DirectoryNodeData_lookup_in_circle(self,
                          IF in_circle(child.obj, origin, radius2)
                          THEN Append(result, child.obj) ELSE result,
                          origin, radius2, index + 1)
                  ELSE DirectoryNodeData_lookup_in_circle(self,
                          DirectoryNodeData_lookup_in_circle(child, result, origin,
                                                             radius2, 1),
                          origin, radius2, index + 1)
             ELSE DirectoryNodeData_lookup_in_circle(self, result, origin, radius2,
                                                     index + 1)

\* RTree::lookup_in_circle
RTree_lookup_in_circle(r, sz, circle_origin, radius2) ==
    IF sz > 0
    THEN DirectoryNodeData_lookup_in_circle(r, << >>, circle_origin, radius2, 1)
    ELSE << >>

\* a filter that keeps only the children lying inside the query rectangle
rectangle_filter_inside(child, query_rect) ==
    contains_rect(query_rect, node_mbr(child))

\* the filter of DirectoryNodeData::lookup_in_rectangle
rectangle_filter(child, query_rect) == intersects(node_mbr(child), query_rect)

RECURSIVE DirectoryNodeData_lookup_in_rectangle(_, _, _, _)
\* DirectoryNodeData::lookup_in_rectangle from child index onwards: the
\* result Vec
DirectoryNodeData_lookup_in_rectangle(self, result, query_rect, index) ==
    IF index > Len(self.children)
    THEN result
    ELSE LET child == self.children[index]
         IN  IF rectangle_filter(child, query_rect)
             THEN IF IsLeaf(child)
                  THEN DirectoryNodeData_lookup_in_rectangle(self,
                          IF intersects(obj_mbr(child.obj), query_rect)
                          THEN Append(result, child.obj) ELSE result,
                          query_rect, index + 1)
                  ELSE DirectoryNodeData_lookup_in_rectangle(self,
                          DirectoryNodeData_lookup_in_rectangle(child, result,
                                                                query_rect, 1),
                          query_rect, index + 1)
             ELSE DirectoryNodeData_lookup_in_rectangle(self, result, query_rect,
                                                        index + 1)

\* RTree::lookup_in_rectangle
RTree_lookup_in_rectangle(r, sz, query_rect) ==
    IF sz > 0
    THEN DirectoryNodeData_lookup_in_rectangle(r, << >>, query_rect, 1)
    ELSE << >>

RECURSIVE lookup_children(_, _, _, _)
\* the for loop of DirectoryNodeData::lookup over next.children from index
\* onwards: the object found, if any, and the todo_list
lookup_children(children, point, index, todo_list) ==
    IF index > Len(children)
    THEN [found |-> None, todo_list |-> todo_list]
    ELSE IF IsLeaf(children[index])
    THEN IF obj_contains(children[index].obj, point)
         THEN [found |-> Some(children[index].obj), todo_list |-> todo_list]
         ELSE lookup_children(children, point, index + 1, todo_list)
    ELSE lookup_children(children, point, index + 1,
                         Append(todo_list, children[index]))

RECURSIVE lookup_loop(_, _)
\* the loop of DirectoryNodeData::lookup after the scan of next.children
lookup_scanned(scan, point) ==
    IF is_some(scan.found)
    THEN [result |-> scan.found, panicked |-> FALSE]
    ELSE lookup_loop(scan.todo_list, point)

\* a loop that gives up at the first node whose box does not contain the point
lookup_popped_stop(next, rest, point) ==
    IF ~is_some(next.bounding_box)
    THEN [result |-> None, panicked |-> TRUE]
    ELSE IF contains_point(unwrap(next.bounding_box), point)
    THEN lookup_scanned(lookup_children(next.children, point, 1, rest), point)
    ELSE [result |-> None, panicked |-> FALSE]

\* one turn of the while loop of DirectoryNodeData::lookup, next popped from
\* the todo_list and rest left on it
lookup_popped(next, rest, point) ==
    IF ~is_some(next.bounding_box)
    THEN [result |-> None, panicked |-> TRUE]
    ELSE IF contains_point(unwrap(next.bounding_box), point)
    THEN lookup_scanned(lookup_children(next.children, point, 1, rest), point)
    ELSE lookup_loop(rest, point)

\* the while loop of DirectoryNodeData::lookup: the Option returned, and
\* whether next.mbr() panicked on a node without a bounding box
lookup_loop(todo_list, point) ==
    IF Len(todo_list) = 0
    THEN [result |-> None, panicked |-> FALSE]
    ELSE lookup_popped(Last(todo_list),
                       SubSeq(todo_list, 1, Len(todo_list) - 1), point)

\* DirectoryNodeData::lookup
DirectoryNodeData_lookup(self, point) == lookup_loop(<<self>>, point)

\* DirectoryNodeData::lookup_mut: the same traversal over exclusive borrows
DirectoryNodeData_lookup_mut(self, point) == lookup_loop(<<self>>, point)

\* RTree::lookup
RTree_lookup(r, sz, query_point) ==
    IF sz > 0
    THEN DirectoryNodeData_lookup(r, query_point)
    ELSE [result |-> None, panicked |-> FALSE]

\* RTree::lookup_mut
RTree_lookup_mut(r, sz, query_point) ==
    IF sz > 0
    THEN DirectoryNodeData_lookup_mut(r, query_point)
    ELSE [result |-> None, panicked |-> FALSE]

RECURSIVE close_scan(_, _, _, _, _)
\* the for loop of DirectoryNodeData::close_neighbor from index onwards: the
\* index of new_follow
close_scan(children, point, index, new_follow, min_min_dist) ==
    IF index > Len(children)
    THEN new_follow
    ELSE IF min_dist2(node_mbr(children[index]), point) < min_min_dist \/ index = 1
    THEN close_scan(children, point, index + 1, index,
                    min_dist2(node_mbr(children[index]), point))
    ELSE close_scan(children, point, index + 1, new_follow, min_min_dist)

RECURSIVE close_follow(_, _)
\* the loop of DirectoryNodeData::close_neighbor from the node follow
close_follow(follow, point) ==
    IF IsLeaf(follow)
    THEN Some(follow.obj)
    ELSE close_follow(follow.children[close_scan(follow.children, point, 1, 1, 0)],
                      point)

\* DirectoryNodeData::close_neighbor
DirectoryNodeData_close_neighbor(self, point) ==
    IF Len(self.children) = 0 THEN None ELSE close_follow(self, point)

\* RTree::close_neighbor
RTree_close_neighbor(r, point) == DirectoryNodeData_close_neighbor(r, point)

RECURSIVE DirectoryNodeData_contains(_, _)
\* DirectoryNodeData::contains
DirectoryNodeData_contains(self, obj) ==
    /\ is_some(self.bounding_box)
    /\ contains_rect(unwrap(self.bounding_box), obj_mbr(obj))
    /\ \E index \in 1 .. Len(self.children) :
          IF IsLeaf(self.children[index])
          THEN self.children[index].obj = obj
          ELSE DirectoryNodeData_contains(self.children[index], obj)

\* RTree::contains
RTree_contains(r, obj) == DirectoryNodeData_contains(r, obj)

(***************************************************************************)
(* Iteration.  An RTreeIterator is a record of data, cur_index and          *)
(* cur_iterator; an RTreeNodeIterator is a LeafIterator over a Once or a    *)
(* DirectoryNodeIterator over an RTreeIterator.  next returns the iterator  *)
(* afterwards and the item.                                                 *)
(***************************************************************************)
RECURSIVE RTreeIterator_new(_)
\* RTreeNodeIterator::new
RTreeNodeIterator_new(node) ==
    IF IsLeaf(node)
    THEN [kind |-> "LeafIterator", once |-> Some(node.obj)]
    ELSE [kind |-> "DirectoryNodeIterator", iter |-> RTreeIterator_new(node)]

\* RTreeIterator::new
RTreeIterator_new(data) ==
    [data |-> data, cur_index |-> 0,
     cur_iterator |-> IF Len(data.children) > 0
                      THEN Some(RTreeNodeIterator_new(data.children[1]))
                      ELSE None]

RECURSIVE RTreeIterator_next(_)
RECURSIVE iterator_advance(_)
\* the DirectoryNodeIterator arm of RTreeNodeIterator::next
directory_iterator_next(sub) ==
    [self |-> [kind |-> "DirectoryNodeIterator", iter |-> sub.self],
     item |-> sub.item]

\* RTreeNodeIterator::next
RTreeNodeIterator_next(self) ==
    IF self.kind = "LeafIterator"
    THEN [self |-> [self EXCEPT !.once = None], item |-> self.once]
    ELSE directory_iterator_next(RTreeIterator_next(self.iter))

\* RTreeIterator::next after cur_iterator.next() returned sub: the item, or
\* the change to the next child
iterator_called(self, sub) ==
    IF is_some(sub.item)
    THEN [self |-> [self EXCEPT !.cur_iterator = Some(sub.self)], item |-> sub.item]
    ELSE iterator_advance([self EXCEPT !.cur_iterator = Some(sub.self)])

\* an advance that steps over a child
iterator_advance_skip(self) ==
    IF self.cur_index + 2 < Len(self.data.children)
    THEN iterator_called([self EXCEPT !.cur_index = @ + 2],
            RTreeNodeIterator_next(
                RTreeNodeIterator_new(self.data.children[self.cur_index + 3])))
    ELSE [self |-> [self EXCEPT !.cur_index = @ + 2], item |-> None]

\* one turn of the loop of RTreeIterator::next (cur_index is a rust index)
iterator_advance(self) ==
    IF self.cur_index + 1 < Len(self.data.children)
    THEN iterator_called([self EXCEPT !.cur_index = @ + 1],
            RTreeNodeIterator_next(
                RTreeNodeIterator_new(self.data.children[self.cur_index + 2])))
    ELSE [self |-> [self EXCEPT !.cur_index = @ + 1], item |-> None]

\* RTreeIterator::next
RTreeIterator_next(self) ==
    IF is_some(self.cur_iterator)
    THEN iterator_called(self, RTreeNodeIterator_next(unwrap(self.cur_iterator)))
    ELSE [self |-> self, item |-> None]

\* Vec::insert(index, b) with index a TLA+ index
InsertAt(s, index, b) == SubSeq(s, 1, index - 1) \o <<b>> \o SubSeq(s, index, Len(s))

\* slice::binary_search_by on distance2, Ok and Err merged: the TLA+ indices it
\* may return.  Any matching index when some element is at that distance
\* (which one is left open by the library), else the insertion index.
binary_search_indices(result, point, distance) ==
    LET matching == { i \in 1 .. Len(result) : distance2(result[i], point) = distance }
    IN  IF matching # {}
        THEN matching
        ELSE { 1 + Cardinality({ i \in 1 .. Len(result) :
                                    distance2(result[i], point) < distance }) }

RECURSIVE DirectoryNodeData_nearest_n_neighbors(_, _, _, _, _)
\* DirectoryNodeData::nearest_n_neighbors from child index onwards.  results is
\* the set of the values the result Vec may have (they differ only in the
\* order of objects at equal distance, so in no test the code makes); the
\* outcome is that set afterwards, and whether an unwrap panicked.
DirectoryNodeData_nearest_n_neighbors(self, point, n, results, index) ==
    IF index > Len(self.children)
    THEN [results |-> results, panicked |-> FALSE]
    ELSE LET child == self.children[index]
             result == CHOOSE r \in results : TRUE
             min_dist == min_dist2(node_mbr(child), point)
         IN  IF Len(result) = n /\ Len(result) = 0
             THEN \* result.last().unwrap() on an empty Vec
                  [results |-> results, panicked |-> TRUE]
             ELSE IF Len(result) = n /\ min_dist >= distance2(Last(result), point)
             THEN DirectoryNodeData_nearest_n_neighbors(self, point, n, results, index + 1)
             ELSE IF IsLeaf(child)
             THEN LET distance == distance2(child.obj, point)
                  IN  IF Len(result) # n \/ distance < distance2(Last(result), point)
                      THEN LET popped == IF Len(result) = n
                                         THEN { SubSeq(r, 1, Len(r) - 1) : r \in results }
                                         ELSE results
                               inserted ==
                                   UNION { { InsertAt(r, i, child.obj) :
                                               i \in binary_search_indices(r, point, distance) } :
                                           r \in popped }
                           IN  DirectoryNodeData_nearest_n_neighbors(self, point, n,
                                                                     inserted, index + 1)
                      ELSE DirectoryNodeData_nearest_n_neighbors(self, point, n,
                                                                 results, index + 1)
             ELSE LET sub == DirectoryNodeData_nearest_n_neighbors(child, point, n,
                                                                   results, 1)
                  IN  IF sub.panicked
                      THEN sub
                      ELSE DirectoryNodeData_nearest_n_neighbors(self, point, n,
                                                                 sub.results, index + 1)

\* RTree::nearest_n_neighbors
RTree_nearest_n_neighbors(r, sz, query_point, n) ==
    IF sz > 0
    THEN DirectoryNodeData_nearest_n_neighbors(r, query_point, n, { << >> }, 1)
    ELSE [results |-> { << >> }, panicked |-> FALSE]

(***************************************************************************)
(* The tree and its callers.                                               *)
(***************************************************************************)
\* RTreeOptions: the triples that satisfy the construction constraints
ValidOptions ==
    { o \in [max_size : 1 .. MaxFanout, min_size : 1 .. MaxFanout,
             reinsertion_count : 1 .. MaxFanout] :
        /\ 0 < o.min_size /\ o.min_size < o.max_size
        /\ 0 < o.reinsertion_count /\ o.reinsertion_count < o.max_size }

\* RTreeOptions::new
RTreeOptions_new == [max_size |-> 6, min_size |-> 3, reinsertion_count |-> 2]

\* RTreeOptions::set_max_size: the options, and whether the assert! failed
set_max_size(self, max_size) ==
    IF max_size > self.min_size
    THEN [options |-> [self EXCEPT !.max_size = max_size], panicked |-> FALSE]
    ELSE [options |-> self, panicked |-> TRUE]

\* RTreeOptions::set_min_size
set_min_size(self, min_size) ==
    IF self.max_size > min_size
    THEN [options |-> [self EXCEPT !.min_size = min_size], panicked |-> FALSE]
    ELSE [options |-> self, panicked |-> TRUE]

\* RTreeOptions::set_reinsertion_count
set_reinsertion_count(self, reinsertion_count) ==
    IF 0 < reinsertion_count /\ self.max_size > reinsertion_count
    THEN [options |-> [self EXCEPT !.reinsertion_count = reinsertion_count],
          panicked |-> FALSE]
    ELSE [options |-> self, panicked |-> TRUE]

\* a call and what it returned
Call(op, arg, val) == [op |-> op, arg |-> arg, val |-> val]

\* the calls that return a borrow of the tree
Queries == { "nearest_neighbor", "nearest_neighbors", "nearest_n_neighbors",
             "lookup_in_circle", "lookup_in_rectangle", "lookup", "lookup_mut",
             "close_neighbor", "iter" }

\* a mutation needs the exclusive borrow: no query result is alive
Exclusive == ~panicked /\ ret.op \notin Queries

\* RTree::new_with_options
Init ==
    /\ options \in ValidOptions
    /\ root = DirectoryNodeData_new(1)
    /\ size = 0
    /\ ret = Call("new", << >>, << >>)
    /\ panicked = FALSE

\* tree.insert(t)
Insert(t) ==
    /\ Exclusive
    /\ size < MaxObjects
    /\ LET done == RTree_insert(root, t)
       IN  /\ root' = done.root
           /\ panicked' = done.panicked
           /\ size' = IF done.panicked THEN size ELSE size + 1
           /\ ret' = Call("insert", t, << >>)
    /\ UNCHANGED options

\* tree.remove(&obj)
Remove(obj) ==
    /\ Exclusive
    /\ LET done == RTree_remove(root, size, obj)
       IN  /\ root' = done.root
           /\ size' = done.size
           /\ ret' = Call("remove", obj, done.result)
    /\ UNCHANGED <<options, panicked>>

\* tree.lookup_and_remove(&query_point)
LookupAndRemove(query_point) ==
    /\ Exclusive
    /\ LET done == RTree_lookup_and_remove(root, size, query_point)
       IN  /\ root' = done.root
           /\ size' = done.size
           /\ ret' = Call("lookup_and_remove", query_point, done.result)
    /\ UNCHANGED <<options, panicked>>

\* tree.nearest_neighbor(&query_point)
NearestNeighbor(query_point) ==
    /\ Exclusive
    /\ ret' = Call("nearest_neighbor", query_point,
                   RTree_nearest_neighbor(root, size, query_point))
    /\ UNCHANGED <<options, root, size, panicked>>

\* tree.nearest_neighbors(&query_point)
NearestNeighbors(query_point) ==
    /\ Exclusive
    /\ ret' = Call("nearest_neighbors", query_point,
                   RTree_nearest_neighbors(root, size, query_point))
    /\ UNCHANGED <<options, root, size, panicked>>

\* tree.nearest_n_neighbors(&query_point, n)
NearestNNeighbors(query_point, n) ==
    /\ Exclusive
    /\ LET done == RTree_nearest_n_neighbors(root, size, query_point, n)
       IN  /\ panicked' = done.panicked
           /\ \E result \in done.results :
                 ret' = Call("nearest_n_neighbors", <<query_point, n>>, result)
    /\ UNCHANGED <<options, root, size>>

\* tree.lookup_in_circle(&circle_origin, &radius2)
LookupInCircle(circle_origin, radius2) ==
    /\ Exclusive
    /\ ret' = Call("lookup_in_circle", <<circle_origin, radius2>>,
                   RTree_lookup_in_circle(root, size, circle_origin, radius2))
    /\ UNCHANGED <<options, root, size, panicked>>

\* tree.lookup_in_rectangle(&query_rect)
LookupInRectangle(query_rect) ==
    /\ Exclusive
    /\ ret' = Call("lookup_in_rectangle", query_rect,
                   RTree_lookup_in_rectangle(root, size, query_rect))
    /\ UNCHANGED <<options, root, size, panicked>>

\* tree.lookup(&query_point)
Lookup(query_point) ==
    /\ Exclusive
    /\ LET done == RTree_lookup(root, size, query_point)
       IN  /\ panicked' = done.panicked
           /\ ret' = Call("lookup", query_point, done.result)
    /\ UNCHANGED <<options, root, size>>

\* tree.lookup_mut(&query_point), the object left as it is
LookupMut(query_point) ==
    /\ Exclusive
    /\ LET done == RTree_lookup_mut(root, size, query_point)
       IN  /\ panicked' = done.panicked
           /\ ret' = Call("lookup_mut", query_point, done.result)
    /\ UNCHANGED <<options, root, size>>

\* tree.close_neighbor(&point)
CloseNeighbor(point) ==
    /\ Exclusive
    /\ ret' = Call("close_neighbor", point, RTree_close_neighbor(root, point))
    /\ UNCHANGED <<options, root, size, panicked>>

\* tree.contains(&obj)
Contains(obj) ==
    /\ Exclusive
    /\ ret' = Call("contains", obj, RTree_contains(root, obj))
    /\ UNCHANGED <<options, root, size, panicked>>

\* tree.iter(): the iterator and the log of what next() returned so far
Iter ==
    /\ Exclusive
    /\ ret' = Call("iter", << >>, [iter |-> RTreeIterator_new(root), log |-> << >>])
    /\ UNCHANGED <<options, root, size, panicked>>

\* the number of None entries of a log of Options
Exhausted(log) == Cardinality({ i \in 1 .. Len(log) : ~is_some(log[i]) })

\* next() on the iterator that the last call of iter() returned
IterNext ==
    /\ ~panicked
    /\ ret.op = "iter"
    /\ Exhausted(ret.val.log) < MaxExhausted
    /\ LET done == RTreeIterator_next(ret.val.iter)
       IN  ret' = Call("iter", << >>,
                       [iter |-> done.self, log |-> Append(ret.val.log, done.item)])
    /\ UNCHANGED <<options, root, size, panicked>>

\* the caller drops the result of a query, which ends the borrow of the tree
Release ==
    /\ ~panicked
    /\ ret.op \in Queries
    /\ ret' = Call("release", << >>, << >>)
    /\ UNCHANGED <<options, root, size, panicked>>

\* insert, remove and lookup_and_remove in any order
Next ==
    \/ \E t \in Objects : Insert(t)
    \/ \E obj \in Objects : Remove(obj)
    \/ \E query_point \in Points : LookupAndRemove(query_point)

Spec == Init /\ [][Next]_vars

\* insert and remove in any order
NextInsertRemove ==
    \/ \E t \in Objects : Insert(t)
    \/ \E obj \in Objects : Remove(obj)

SpecInsertRemove == Init /\ [][NextInsertRemove]_vars

\* insert and remove in any order, and the queries on the trees they reach
NextQuery ==
    \/ \E t \in Objects : Insert(t)
    \/ \E obj \in Objects : Remove(obj)
    \/ \E query_point \in Points : NearestNeighbor(query_point)
    \/ \E query_point \in Points, n \in NeighborCounts :
          NearestNNeighbors(query_point, n)
    \/ \E circle_origin \in Points, radius2 \in Radii2 :
          LookupInCircle(circle_origin, radius2)
    \/ Release

SpecQuery == Init /\ [][NextQuery]_vars

\* insert only, and nearest_neighbors on the trees it builds
NextInsertQuery ==
    \/ \E t \in Objects : Insert(t)
    \/ \E query_point \in Points : NearestNeighbors(query_point)
    \/ Release

SpecInsertQuery == Init /\ [][NextInsertQuery]_vars

\* insert and remove in any order, and the lookups and iterations on the
\* trees they reach
NextLookup ==
    \/ \E t \in Objects : Insert(t)
    \/ \E obj \in Objects : Remove(obj)
    \/ \E query_point \in Points : Lookup(query_point)
    \/ \E query_point \in Points : LookupMut(query_point)
    \/ \E query_rect \in QueryRects : LookupInRectangle(query_rect)
    \/ Iter
    \/ IterNext
    \/ Release

SpecLookup == Init /\ [][NextLookup]_vars

\* insert of points and edges and lookup_and_remove in any order
NextExtent ==
    \/ \E t \in ExtentObjects : Insert(t)
    \/ \E query_point \in Points : LookupAndRemove(query_point)

SpecExtent == Init /\ [][NextExtent]_vars

\* RTreeOptions::new(): the options under construction, no tree yet
InitOptions ==
    /\ options = RTreeOptions_new
    /\ root = None
    /\ size = 0
    /\ ret = Call("RTreeOptions::new", << >>, << >>)
    /\ panicked = FALSE

\* the options are still under construction
Building ==
    /\ ~panicked
    /\ ret.op \in { "RTreeOptions::new", "set_max_size", "set_min_size",
                    "set_reinsertion_count" }

\* options.set_max_size(max_size)
SetMaxSize(max_size) ==
    /\ Building
    /\ options' = set_max_size(options, max_size).options
    /\ panicked' = set_max_size(options, max_size).panicked
    /\ ret' = Call("set_max_size", max_size, << >>)
    /\ UNCHANGED <<root, size>>

\* options.set_min_size(min_size)
SetMinSize(min_size) ==
    /\ Building
    /\ options' = set_min_size(options, min_size).options
    /\ panicked' = set_min_size(options, min_size).panicked
    /\ ret' = Call("set_min_size", min_size, << >>)
    /\ UNCHANGED <<root, size>>

\* options.set_reinsertion_count(reinsertion_count)
SetReinsertionCount(reinsertion_count) ==
    /\ Building
    /\ options' = set_reinsertion_count(options, reinsertion_count).options
    /\ panicked' = set_reinsertion_count(options, reinsertion_count).panicked
    /\ ret' = Call("set_reinsertion_count", reinsertion_count, << >>)
    /\ UNCHANGED <<root, size>>

\* options.build(), which is RTree::new_with_options(options)
Build ==
    /\ Building
    /\ root' = DirectoryNodeData_new(1)
    /\ size' = 0
    /\ ret' = Call("build", << >>, << >>)
    /\ UNCHANGED <<options, panicked>>

\* the construction of the options and of the tree
NextOptions ==
    \/ \E max_size \in OptionSizes : SetMaxSize(max_size)
    \/ \E min_size \in OptionSizes : SetMinSize(min_size)
    \/ \E reinsertion_count \in OptionSizes : SetReinsertionCount(reinsertion_count)
    \/ Build

SpecOptions == InitOptions /\ [][NextOptions]_vars

\* the root has no child: the tree holds no object
Emptied == Len(root.children) = 0

\* insert, remove and lookup_and_remove in any order, and every query on the
\* trees they leave without an object
NextEmptied ==
    \/ \E t \in Objects : Insert(t)
    \/ \E obj \in Objects : Remove(obj)
    \/ \E query_point \in Objects : LookupAndRemove(query_point)
    \/ Emptied /\ \E query_point \in Points : Lookup(query_point)
    \/ Emptied /\ \E query_point \in Points : LookupMut(query_point)
    \/ Emptied /\ \E query_point \in Points : NearestNeighbor(query_point)
    \/ Emptied /\ \E query_point \in Points : NearestNeighbors(query_point)
    \/ Emptied /\ \E query_point \in Points, n \in NeighborCounts :
                      NearestNNeighbors(query_point, n)
    \/ Emptied /\ \E point \in Points : CloseNeighbor(point)
    \/ Emptied /\ \E query_rect \in QueryRects : LookupInRectangle(query_rect)
    \/ Emptied /\ \E circle_origin \in Points, radius2 \in Radii2 :
                      LookupInCircle(circle_origin, radius2)
    \/ Emptied /\ \E obj \in Objects : Contains(obj)
    \/ Emptied /\ Iter
    \/ IterNext
    \/ Release

SpecEmptied == Init /\ [][NextEmptied]_vars

(***************************************************************************)
(* RTree::insert one turn of its loop at a time.  While the call runs, ret *)
(* holds its locals: insertion_stack and state.                            *)
(***************************************************************************)
\* tree.insert(t) has been entered and has not returned
Inserting == ret.op = "inserting"

\* the entry of RTree::insert: state and insertion_stack are created
InsertBegin(t) ==
    /\ Exclusive
    /\ ~Inserting
    /\ ret' = Call("inserting", t,
                   [insertion_stack |-> <<Leaf(t)>>,
                    state |-> InsertionState_new(root.depth + 1)])
    /\ UNCHANGED <<options, root, size, panicked>>

\* the loop of a running insert is at a pop that returns Some(next)
Popping == Inserting /\ ~panicked /\ Len(ret.val.insertion_stack) > 0

\* one turn of the loop: insertion_stack.pop() returned Some(next)
InsertStep ==
    /\ Popping
    /\ LET step == insert_next(root, ret.val.insertion_stack, ret.val.state)
       IN  /\ root' = step.root
           /\ panicked' = step.panicked
           /\ ret' = Call("inserting", ret.arg,
                          [insertion_stack |-> step.insertion_stack,
                           state |-> step.state])
    /\ UNCHANGED <<options, size>>

\* insertion_stack.pop() returned None: break, self.size += 1, return
InsertEnd ==
    /\ Inserting
    /\ ~panicked
    /\ Len(ret.val.insertion_stack) = 0
    /\ size' = size + 1
    /\ ret' = Call("insert", ret.arg, << >>)
    /\ UNCHANGED <<options, root, panicked>>

\* inserts, one turn at a time, and removals between them
NextStep ==
    \/ \E t \in Objects : size < MaxObjects /\ InsertBegin(t)
    \/ InsertStep
    \/ InsertEnd
    \/ \E obj \in Objects : ~Inserting /\ Remove(obj)

SpecStep == Init /\ [][NextStep]_vars

\* a sequence of insertions under which the tree grows to depth 4
GrowScript ==
    << <<0, 1>>, <<2, 2>>, <<3, 0>>, <<0, 1>>, <<0, 0>>, <<2, 2>>, <<0, 2>>,
       <<0, 1>>, <<0, 1>>, <<1, 3>>, <<0, 1>>, <<3, 3>>, <<1, 0>>, <<0, 2>>,
       <<0, 2>> >>

\* the objects of GrowScript are inserted in its order, one turn at a time
NextGrow ==
    \/ size < Len(GrowScript) /\ InsertBegin(GrowScript[size + 1])
    \/ InsertStep
    \/ InsertEnd

SpecGrow == Init /\ [][NextGrow]_vars

\* the loop of RTree::insert runs on: no turn of it and no return waits
\* forever.  The weak fairness of InsertStep is written out with Popping, the
\* condition under which a turn can be taken (a turn always changes ret or
\* panicked).
FairSpecGrow ==
    /\ SpecGrow
    /\ WF_vars(InsertEnd)
    /\ ([]<>~Popping \/ []<><<InsertStep>>_vars)

(***************************************************************************)
(* DirectoryNodeData::split and get_split_axis on their own: the node they *)
(* are called on is a directory that add_children has just made overfull.  *)
(***************************************************************************)
\* the largest max_size of the options a node is split under
MaxSplitSize == 4

\* RTreeOptions: the triples up to MaxSplitSize that satisfy
\* 0 < min_size < max_size and 0 < reinsertion_count < max_size
SplitOptions ==
    { o \in [max_size : 1 .. MaxSplitSize, min_size : 1 .. MaxSplitSize,
             reinsertion_count : 1 .. MaxSplitSize] :
        /\ 0 < o.min_size /\ o.min_size < o.max_size
        /\ 0 < o.reinsertion_count /\ o.reinsertion_count < o.max_size }

\* the objects under the node that is split
SplitPoints == { <<0, 2>>, <<5, 1>>, <<4, 5>>, <<0, 0>> }

\* a directory above the leaves, overfull by one child after add_children
InitSplit ==
    /\ options \in SplitOptions
    /\ \E objs \in [1 .. options.max_size + 1 -> SplitPoints] :
          root = add_children(DirectoryNodeData_new(1),
                              [i \in 1 .. Len(objs) |-> Leaf(objs[i])])
    /\ size = options.max_size + 1
    /\ ret = Call("add_children", << >>, << >>)
    /\ panicked = FALSE

\* self.get_split_axis(): the children are left sorted, the axis is returned
GetSplitAxis ==
    /\ ret.op = "add_children"
    /\ LET ax == get_split_axis(root)
       IN  /\ root' = [root EXCEPT !.children = ax.children]
           /\ ret' = Call("get_split_axis", root, ax.axis)
    /\ UNCHANGED <<options, size, panicked>>

\* self.split(): self keeps the left partition, the node split off is returned
SplitNode ==
    /\ ret.op = "add_children"
    /\ Len(root.children) >= 2
    /\ LET s == split(root)
       IN  /\ root' = s.node
           /\ ret' = Call("split", root, s.offsplit)
    /\ UNCHANGED <<options, size, panicked>>

NextSplit ==
    \/ GetSplitAxis
    \/ SplitNode

SpecSplit == InitSplit /\ [][NextSplit]_vars

(***************************************************************************)
(* What the claims speak of: the leaves and the directories of a tree.     *)
(***************************************************************************)
RECURSIVE LeafCount(_, _)
RECURSIVE LeafCountFrom(_, _, _)
\* the number of leaves under node that hold an object equal to o
LeafCount(node, o) ==
    IF IsLeaf(node)
    THEN IF node.obj = o THEN 1 ELSE 0
    ELSE LeafCountFrom(node.children, o, 1)

LeafCountFrom(children, o, index) ==
    IF index > Len(children) THEN 0
    ELSE LeafCount(children[index], o) + LeafCountFrom(children, o, index + 1)

RECURSIVE NumLeaves(_)
RECURSIVE NumLeavesFrom(_, _)
\* the number of leaves reachable from node
NumLeaves(node) ==
    IF IsLeaf(node) THEN 1 ELSE NumLeavesFrom(node.children, 1)

NumLeavesFrom(children, index) ==
    IF index > Len(children) THEN 0
    ELSE NumLeaves(children[index]) + NumLeavesFrom(children, index + 1)

\* the objects stored in the tree, as a set
Stored(r) == { o \in Points \cup ExtentObjects : LeafCount(r, o) > 0 }

RECURSIVE Directories(_)
\* the directory nodes of the subtree of node, node included
Directories(node) ==
    IF IsLeaf(node) THEN { }
    ELSE { node } \cup UNION { Directories(node.children[i]) : i \in 1 .. Len(node.children) }

\* the directory nodes below the root
NonRootDirectories(r) ==
    UNION { Directories(r.children[i]) : i \in 1 .. Len(r.children) }

\* the number of times o occurs in the sequence s
Occurrences(s, o) == Cardinality({ i \in 1 .. Len(s) : s[i] = o })

\* the smallest squared distance from q to a stored object (of a non-empty tree)
MinDistance2(r, q) ==
    CHOOSE d \in { distance2(o, q) : o \in Stored(r) } :
        \A o \in Stored(r) : d <= distance2(o, q)

(***************************************************************************)
(* C1: after any sequence of insert, remove and lookup_and_remove calls,   *)
(* size() equals the number of leaves reachable from the root.             *)
(***************************************************************************)
C1_SizeIsLeafCount == ~panicked => size = NumLeaves(root)

(***************************************************************************)
(* C2: lookup_and_remove(&p) removes exactly one object.  When a stored    *)
(* object contains p the call returns one such object, one leaf holding it *)
(* is gone and every other leaf is still there; when none contains p it    *)
(* returns None and the stored objects are unchanged.                      *)
(***************************************************************************)
C2_LookupAndRemoveOne ==
    [][\A p \in Points : LookupAndRemove(p) =>
        IF \E o \in Stored(root) : obj_contains(o, p)
        THEN /\ is_some(ret'.val)
             /\ obj_contains(unwrap(ret'.val), p)
             /\ \A o \in Points :
                   LeafCount(root', o) =
                       LeafCount(root, o) - (IF o = unwrap(ret'.val) THEN 1 ELSE 0)
        ELSE /\ ret'.val = None
             /\ \A o \in Points : LeafCount(root', o) = LeafCount(root, o)]_vars

(***************************************************************************)
(* C3: in a tree reached by insert and remove calls, remove(&obj) returns  *)
(* true iff a stored object equals obj; when it returns true exactly one   *)
(* leaf equal to obj is gone and size() is one less; when it returns false *)
(* the stored objects and size() are unchanged.                            *)
(***************************************************************************)
C3_RemoveOne ==
    [][\A obj \in Objects : Remove(obj) =>
        /\ ret'.val = (LeafCount(root, obj) > 0)
        /\ \A o \in Points :
              LeafCount(root', o) =
                  LeafCount(root, o) - (IF ret'.val /\ o = obj THEN 1 ELSE 0)
        /\ size' = size - (IF ret'.val THEN 1 ELSE 0)]_vars

\* a successful remove of an object stored twice, in a tree with directory
\* levels: the other copy is still stored
C3_Witness ==
    /\ ret.op = "remove" /\ ret.val
    /\ LeafCount(root, ret.arg) = 1
    /\ size = 3
    /\ root.depth >= 2

(***************************************************************************)
(* C4: at every call boundary every directory node other than the root has *)
(* between min_size and max_size children, and the root has between 0 and  *)
(* max_size children.                                                      *)
(***************************************************************************)
C4_NodeSizes ==
    ~panicked =>
        /\ Len(root.children) <= options.max_size
        /\ \A d \in NonRootDirectories(root) :
              /\ options.min_size <= Len(d.children)
              /\ Len(d.children) <= options.max_size

(***************************************************************************)
(* C5: after every mutation every directory node with at least one child   *)
(* has a cached MBR equal to the union of the MBRs of its children.        *)
(***************************************************************************)
C5_ExactMbr ==
    ~panicked =>
        \A d \in Directories(root) :
            Len(d.children) > 0 => d.bounding_box = Some(mbr_of(d.children))

(***************************************************************************)
(* C6: every child of a directory node at depth d has depth d - 1, leaves  *)
(* having depth 0.                                                         *)
(***************************************************************************)
C6_Depths ==
    ~panicked =>
        \A d \in Directories(root) :
            \A i \in 1 .. Len(d.children) :
                (IF d.children[i].kind = "Leaf" THEN 0 ELSE d.children[i].depth)
                    = d.depth - 1

\* a tree that grew to depth 3 (reinsertion, splits and root growth at two
\* levels) and from which lookup_and_remove then took an object
C6_Witness ==
    /\ root.depth = 3
    /\ ret.op = "lookup_and_remove" /\ is_some(ret.val)
    /\ NumLeaves(root) >= 2

(***************************************************************************)
(* C7: nearest_neighbor(&q) returns None iff no object is stored, and      *)
(* otherwise a stored object at the smallest squared distance to q.        *)
(***************************************************************************)
C7_NearestNeighbor ==
    (~panicked /\ ret.op = "nearest_neighbor") =>
        IF Stored(root) = { }
        THEN ret.val = None
        ELSE /\ is_some(ret.val)
             /\ unwrap(ret.val) \in Stored(root)
             /\ distance2(unwrap(ret.val), ret.arg) = MinDistance2(root, ret.arg)

(***************************************************************************)
(* C8: on a tree built by inserts, nearest_neighbors(&q) returns exactly   *)
(* the stored objects at the smallest squared distance to q, each leaf     *)
(* once, and the empty list iff the tree is empty.                         *)
(***************************************************************************)
C8_NearestNeighbors ==
    (~panicked /\ ret.op = "nearest_neighbors") =>
        /\ (ret.val = << >>) = (Stored(root) = { })
        /\ \A o \in Points :
              Occurrences(ret.val, o) =
                  IF o \in Stored(root)
                        /\ distance2(o, ret.arg) = MinDistance2(root, ret.arg)
                  THEN LeafCount(root, o)
                  ELSE 0

\* the query found two different objects tied at the smallest distance, which
\* is not zero, in a tree with directory levels that stores a farther object
C8_Witness ==
    /\ ret.op = "nearest_neighbors"
    /\ root.depth >= 2
    /\ Cardinality({ ret.val[i] : i \in 1 .. Len(ret.val) }) >= 2
    /\ distance2(ret.val[1], ret.arg) > 0
    /\ Len(ret.val) < NumLeaves(root)

(***************************************************************************)
(* C9: for every n >= 0 and every q, nearest_n_neighbors(&q, n) completes  *)
(* and returns min(n, size) stored objects in ascending order of squared   *)
(* distance to q, the n smallest distances among the stored objects.       *)
(***************************************************************************)
C9_NearestNNeighbors ==
    ret.op = "nearest_n_neighbors" =>
        LET q == ret.arg[1]
            n == ret.arg[2]
            result == ret.val
        IN  /\ ~panicked
            /\ Len(result) = Min2(n, size)
            /\ \A o \in Points : Occurrences(result, o) <= LeafCount(root, o)
            /\ \A i \in 1 .. Len(result) - 1 :
                  distance2(result[i], q) <= distance2(result[i + 1], q)
            /\ \A o \in Points :
                  Occurrences(result, o) < LeafCount(root, o) =>
                      \A i \in 1 .. Len(result) :
                          distance2(result[i], q) <= distance2(o, q)

(***************************************************************************)
(* C10: lookup_in_circle(&q, &r2) returns, as a set, exactly the stored    *)
(* objects o with o.distance2(q) < r2.                                     *)
(***************************************************************************)
C10_LookupInCircle ==
    (~panicked /\ ret.op = "lookup_in_circle") =>
        { ret.val[i] : i \in 1 .. Len(ret.val) }
            = { o \in Stored(root) : distance2(o, ret.arg[1]) < ret.arg[2] }

\* a query after a remove, in a tree with directory levels: one stored object
\* lies exactly on the circle, one strictly inside and one outside
C10_Witness ==
    /\ ret.op = "lookup_in_circle"
    /\ root.depth >= 2
    /\ \E o \in Stored(root) : distance2(o, ret.arg[1]) = ret.arg[2]
    /\ \E o \in Stored(root) : distance2(o, ret.arg[1]) > ret.arg[2]
    /\ Len(ret.val) >= 1
    /\ \E d \in Directories(root) :
          Len(d.children) > 0 /\ d.bounding_box # Some(mbr_of(d.children))

(***************************************************************************)
(* C11: on a tree reached by insert and remove calls,                      *)
(* lookup_in_rectangle(&R) returns, as a set, exactly the stored objects   *)
(* whose own MBR intersects R.                                             *)
(***************************************************************************)
C11_LookupInRectangle ==
    (~panicked /\ ret.op = "lookup_in_rectangle") =>
        { ret.val[i] : i \in 1 .. Len(ret.val) }
            = { o \in Stored(root) : intersects(obj_mbr(o), ret.arg) }

\* a query after a remove that left a stale box, in a tree with directory
\* levels: the rectangle meets some stored objects and misses others
C11_Witness ==
    /\ ret.op = "lookup_in_rectangle"
    /\ root.depth >= 2
    /\ Len(ret.val) >= 1
    /\ \E o \in Stored(root) : ~intersects(obj_mbr(o), ret.arg)
    /\ \E d \in Directories(root) :
          Len(d.children) > 0 /\ d.bounding_box # Some(mbr_of(d.children))

(***************************************************************************)
(* C12: on a tree reached by insert and remove calls, lookup(&p) and       *)
(* lookup_mut(&p) complete and return Some(o) for a stored object o that   *)
(* contains p iff some stored object contains p, and None otherwise.       *)
(***************************************************************************)
C12_Lookup ==
    ret.op \in { "lookup", "lookup_mut" } =>
        /\ ~panicked
        /\ IF \E o \in Stored(root) : obj_contains(o, ret.arg)
           THEN /\ is_some(ret.val)
                /\ unwrap(ret.val) \in Stored(root)
                /\ obj_contains(unwrap(ret.val), ret.arg)
           ELSE ret.val = None

\* lookup_mut found an object in a tree of depth 3 that a remove left with a
\* stale box
C12_Witness ==
    /\ ret.op = "lookup_mut"
    /\ is_some(ret.val)
    /\ root.depth = 3
    /\ \E d \in Directories(root) :
          Len(d.children) > 0 /\ d.bounding_box # Some(mbr_of(d.children))

(***************************************************************************)
(* C13: on a tree that holds no object, freshly constructed or emptied by  *)
(* remove and lookup_and_remove calls, every query completes without       *)
(* failing and returns the empty or none result, and remove returns false. *)
(***************************************************************************)
C13_EmptiedQueries ==
    [][Emptied =>
        /\ ~panicked'
        /\ ret'.op \in { "lookup", "lookup_mut", "nearest_neighbor",
                        "close_neighbor" } => ret'.val = None
        /\ ret'.op \in { "nearest_neighbors", "nearest_n_neighbors",
                        "lookup_in_rectangle", "lookup_in_circle" } =>
              ret'.val = << >>
        /\ ret'.op \in { "contains", "remove" } => ret'.val = FALSE
        /\ ret'.op = "iter" =>
              \A i \in 1 .. Len(ret'.val.log) : ret'.val.log[i] = None]_vars

(***************************************************************************)
(* C14: round trip.  Each remove(&obj) of a stored object succeeds and     *)
(* takes one leaf and one from size(), so removing every inserted object   *)
(* leaves size() = 0, an empty root child list, no MBR and root depth 1;   *)
(* an insert that follows succeeds and lookup finds the object.            *)
(***************************************************************************)
C14_RoundTrip ==
    [][/\ \A obj \in Objects :
            (Remove(obj) /\ LeafCount(root, obj) > 0) =>
                /\ ret'.val
                /\ NumLeaves(root') = NumLeaves(root) - 1
                /\ size' = size - 1
                /\ NumLeaves(root') = 0 =>
                      /\ size' = 0
                      /\ root'.children = << >>
                      /\ root'.bounding_box = None
                      /\ root'.depth = 1
       /\ \A t \in Objects :
            (Insert(t) /\ ret.op = "remove" /\ NumLeaves(root) = 0) =>
                /\ ~panicked'
                /\ size' = 1
                /\ RTree_lookup(root', size', t)
                      = [result |-> Some(t), panicked |-> FALSE]]_vars

\* the last stored object was just removed
C14_Witness ==
    /\ ret.op = "remove" /\ ret.val
    /\ size = 0
    /\ root = DirectoryNodeData_new(1)

(***************************************************************************)
(* C15: for any tree, any object o and any point p that o contains,        *)
(* insert(o); lookup_and_remove(&p) returns Some(o) and leaves size() at   *)
(* its value before the insert.                                            *)
(***************************************************************************)
C15_InsertLookupAndRemove ==
    [][\A p \in Points :
          (LookupAndRemove(p) /\ ret.op = "insert" /\ obj_contains(ret.arg, p)) =>
              /\ ret'.val = Some(ret.arg)
              /\ size' = size - 1]_vars

(***************************************************************************)
(* C15, amended: for any tree, any object o and any point p that o         *)
(* contains, insert(o); lookup_and_remove(&p) returns Some of a stored     *)
(* object that contains p, which is o when no other stored object contains *)
(* p, and leaves size() at its value before the insert.                    *)
(***************************************************************************)
C15_InsertLookupAndRemoveSome ==
    [][\A p \in Points :
          (LookupAndRemove(p) /\ ret.op = "insert" /\ obj_contains(ret.arg, p)) =>
              /\ is_some(ret'.val)
              /\ unwrap(ret'.val) \in Stored(root)
              /\ obj_contains(unwrap(ret'.val), p)
              /\ (\A o \in Stored(root) : obj_contains(o, p) => o = ret.arg) =>
                    ret'.val = Some(ret.arg)
              /\ size' = size - 1]_vars

\* lookup_and_remove returned an edge, from a tree with directory levels in
\* which other objects are left
C15_Witness ==
    /\ ret.op = "lookup_and_remove"
    /\ is_some(ret.val)
    /\ ~IsPoint(unwrap(ret.val))
    /\ root.depth >= 2
    /\ NumLeaves(root) >= 1

(***************************************************************************)
(* C16: from RTreeOptions::new(), each call of set_max_size, set_min_size  *)
(* and set_reinsertion_count either fails fatally or leaves a triple with  *)
(* 0 < min_size < max_size and 0 < reinsertion_count < max_size, and no    *)
(* tree is built from a triple that violates these constraints.            *)
(***************************************************************************)
C16_OptionsValid ==
    ~panicked =>
        /\ 0 < options.min_size /\ options.min_size < options.max_size
        /\ 0 < options.reinsertion_count
        /\ options.reinsertion_count < options.max_size

(***************************************************************************)
(* C17: on a tree reached by insert and remove calls, iter() yields every  *)
(* stored object exactly once, as many items as size(), then None, and     *)
(* None again on every later call of next().                               *)
(***************************************************************************)
C17_Iteration ==
    ret.op = "iter" =>
        LET log == ret.val.log
        IN  /\ \A i, j \in 1 .. Len(log) :
                  (i < j /\ is_some(log[j])) => is_some(log[i])
            /\ \A i \in 1 .. Len(log) :
                  is_some(log[i]) => unwrap(log[i]) \in Stored(root)
            /\ \A o \in Stored(root) : Occurrences(log, Some(o)) <= LeafCount(root, o)
            /\ Exhausted(log) > 0 =>
                  /\ \A o \in Stored(root) :
                        Occurrences(log, Some(o)) = LeafCount(root, o)
                  /\ Len(log) - Exhausted(log) = size

\* an iterator over a tree of depth 3 yielded three objects and then None
\* on every further call
C17_Witness ==
    /\ ret.op = "iter"
    /\ root.depth = 3
    /\ Exhausted(ret.val.log) = MaxExhausted
    /\ Len(ret.val.log) - Exhausted(ret.val.log) >= 3

(***************************************************************************)
(* C18: during one top-level insert, once the root was split and a new     *)
(* root stands one level above the depths the flag vector was allocated    *)
(* for, the remaining worklist items never make that new root overflow, so *)
(* the flag vector is never indexed outside its length and the call never  *)
(* panics on it.                                                           *)
(***************************************************************************)
C18_NewRootNeverOverflows ==
    Inserting =>
        /\ ~panicked
        /\ ~in_bounds(ret.val.state, root.depth) =>
               Len(root.children) <= options.max_size

RECURSIVE DirCount(_, _)
RECURSIVE DirCountFrom(_, _, _)
\* the number of directory nodes of depth d in the subtree of node
DirCount(node, d) ==
    IF IsLeaf(node)
    THEN 0
    ELSE (IF node.depth = d THEN 1 ELSE 0) + DirCountFrom(node.children, d, 1)

\* the same, summed over the nodes of a sequence from index onwards
DirCountFrom(children, d, index) ==
    IF index > Len(children)
    THEN 0
    ELSE DirCount(children[index], d) + DirCountFrom(children, d, index + 1)

\* the directory nodes of depth d that a running insert holds, in the tree r
\* and on its worklist
DirTotal(r, insertion_stack, d) == DirCount(r, d) + DirCountFrom(insertion_stack, d, 1)

\* the depths the flag vector state has a flag for that a directory can have
FlagDepths(state) == 1 .. Len(state) - 1

\* the number of flags of state that are set
FlagsSet(state) == Cardinality({ i \in 1 .. Len(state) : state[i] })

(***************************************************************************)
(* C19: within one top-level insert, forced reinsertion happens at most    *)
(* once per depth.  The flags start all false when the call is entered and *)
(* are never reset while it runs; a turn of the loop ejects children only  *)
(* when it marks a depth not marked before, and then it ejects             *)
(* reinsertion_count of them; a node of depth d is split (the directories  *)
(* of depth d become more) only when d was already marked before the turn. *)
(***************************************************************************)
C19_ReinsertOncePerDepth ==
    [][ /\ (~Inserting /\ Inserting') =>
              /\ Len(ret'.val.state) = root.depth + 1
              /\ FlagsSet(ret'.val.state) = 0
        /\ (Inserting /\ Inserting') =>
              LET state == ret.val.state
                  after == ret'.val.state
                  ejected == Len(ret'.val.insertion_stack)
                                 - (Len(ret.val.insertion_stack) - 1)
              IN  /\ Len(after) = Len(state)
                  /\ \A i \in 1 .. Len(state) : state[i] => after[i]
                  /\ ejected \in {0, options.reinsertion_count}
                  /\ FlagsSet(after) - FlagsSet(state) = (IF ejected > 0 THEN 1 ELSE 0)
                  /\ \A d \in FlagDepths(state) :
                        DirTotal(root', ret'.val.insertion_stack, d)
                            > DirTotal(root, ret.val.insertion_stack, d)
                        => state[d + 1] ]_vars

\* an insert is running in which the root overflowed twice: the first time
\* its depth was marked and children were ejected, the second time it was
\* split, so that the root now stands above the depths of the flag vector
C19_Witness ==
    /\ Inserting
    /\ ~panicked
    /\ ~in_bounds(ret.val.state, root.depth)
    /\ ret.val.state[root.depth]

(***************************************************************************)
(* C20: every top-level insert terminates: once tree.insert(t) has been    *)
(* entered, its worklist becomes empty after finitely many insertions at   *)
(* the root and the call returns.                                          *)
(***************************************************************************)
C20_InsertTerminates ==
    Inserting ~> (ret.op = "insert")

(***************************************************************************)
(* C21: under every options triple with 0 < min_size < max_size and        *)
(* 0 < reinsertion_count < max_size, splitting a directory of max_size + 1 *)
(* children yields two directories of the depth of the original whose      *)
(* child lists together hold exactly the original children, each child     *)
(* once, and each of which has at least min_size and at most max_size      *)
(* children.                                                               *)
(***************************************************************************)
C21_SplitPostcondition ==
    ret.op = "split" =>
        LET original == ret.arg
            left == root
            right == ret.val
        IN  /\ Len(original.children) = options.max_size + 1
            /\ left.kind = "Dir" /\ right.kind = "Dir"
            /\ left.depth = original.depth /\ right.depth = original.depth
            /\ \A i \in 1 .. Len(original.children) :
                  Occurrences(left.children \o right.children, original.children[i])
                      = Occurrences(original.children, original.children[i])
            /\ Len(left.children) + Len(right.children) = Len(original.children)
            /\ Len(left.children) >= options.min_size
            /\ Len(left.children) <= options.max_size
            /\ Len(right.children) >= options.min_size
            /\ Len(right.children) <= options.max_size

\* the partition indices split and get_split_axis try on a node: the left
\* part takes the first k children
LegalPartitions(node) ==
    options.min_size .. Len(node.children) - options.min_size

\* the children of node in the order get_split_axis examines them along axis
\* (0-based): sorted along axis 0, and for axis 1 sorted again along axis 1
SortedAlong(node, axis) ==
    IF axis = 0
    THEN sort_along(node.children, 1)
    ELSE sort_along(sort_along(node.children, 1), 2)

\* S(axis, k) = half_margin(MBR(left)) + half_margin(MBR(right)) of node
MarginSum(node, axis, k) == margin_value(SortedAlong(node, axis), k)

(***************************************************************************)
(* C22: get_split_axis returns an axis a for which some legal partition    *)
(* index attains the minimum of S over all axes and all legal partition    *)
(* indices: no other axis has a partition with a strictly smaller S.       *)
(* Stated for the nodes that have a legal partition index.                 *)
(***************************************************************************)
C22_SplitAxisMinimal ==
    (ret.op = "get_split_axis" /\ LegalPartitions(ret.arg) # { }) =>
        \E k \in LegalPartitions(ret.arg) :
            \A axis \in 0 .. Dimensions - 1 :
                \A other \in LegalPartitions(ret.arg) :
                    MarginSum(ret.arg, ret.val, k) <= MarginSum(ret.arg, axis, other)

\* the objects that are inserted under some specification
InsertedObjects == Objects \cup { GrowScript[i] : i \in 1 .. Len(GrowScript) }

\* the leaves holding o that a running insert holds, in the tree r and on its
\* worklist
LeafTotal(r, insertion_stack, o) == LeafCount(r, o) + LeafCountFrom(insertion_stack, o, 1)

(***************************************************************************)
(* C23: insert conserves objects.  When insert(o) returns, the leaves      *)
(* reachable from the root are those before the call plus one leaf for o,  *)
(* and the worklist is empty.  Step by step: the call starts with o alone  *)
(* on the worklist above the unchanged tree; no turn of the loop (forced   *)
(* reinsertion, node split, root growth) loses or duplicates a leaf of the *)
(* tree and the worklist taken together; the call returns only with an     *)
(* empty worklist, leaving the tree as the last turn left it and size one  *)
(* higher.                                                                 *)
(***************************************************************************)
C23_InsertConserves ==
    [][ /\ (~Inserting /\ Inserting') =>
              /\ root' = root
              /\ ret'.val.insertion_stack = <<Leaf(ret'.arg)>>
              /\ \A o \in InsertedObjects :
                    LeafTotal(root', ret'.val.insertion_stack, o)
                        = LeafCount(root, o) + (IF o = ret'.arg THEN 1 ELSE 0)
        /\ (Inserting /\ Inserting' /\ ~panicked') =>
              /\ ret'.arg = ret.arg
              /\ \A o \in InsertedObjects :
                    LeafTotal(root', ret'.val.insertion_stack, o)
                        = LeafTotal(root, ret.val.insertion_stack, o)
        /\ (Inserting /\ ret'.op = "insert") =>
              /\ ret.val.insertion_stack = << >>
              /\ root' = root
              /\ ret'.arg = ret.arg
              /\ size' = size + 1 ]_vars

\* an insert about to return whose turns reinserted at the root, split it and
\* grew a new root: the worklist is empty and the tree holds one leaf more
\* than before the call
C23_Witness ==
    /\ Inserting
    /\ ~panicked
    /\ ret.val.insertion_stack = << >>
    /\ ~in_bounds(ret.val.state, root.depth)
    /\ NumLeaves(root) = size + 1
    /\ LeafCount(root, ret.arg) >= 1

RECURSIVE LeafObjects(_)
\* the objects held by the leaves of the subtree of node
LeafObjects(node) ==
    IF IsLeaf(node) THEN { node.obj }
    ELSE UNION { LeafObjects(node.children[i]) : i \in 1 .. Len(node.children) }

\* the cached box of the directory d covers every leaf below d
Covers(d) ==
    /\ is_some(d.bounding_box)
    /\ \A o \in LeafObjects(d) : contains_rect(unwrap(d.bounding_box), obj_mbr(o))

(***************************************************************************)
(* C24: the covering invariant.  After any sequence of insert, remove and  *)
(* lookup_and_remove every directory node with children has a cached MBR   *)
(* (never None) that contains the MBR of every leaf in its subtree, and no *)
(* directory node other than the root has an empty child list.  Hence the  *)
(* descent by MBR containment skips no stored object: contains finds every *)
(* object a leaf holds.                                                    *)
(***************************************************************************)
C24_Covering ==
    ~panicked =>
        /\ \A d \in Directories(root) : Len(d.children) > 0 => Covers(d)
        /\ \A d \in NonRootDirectories(root) : Len(d.children) > 0
        /\ \A o \in LeafObjects(root) : RTree_contains(root, o)

\* a removal has left, in a tree with directory levels, a directory whose
\* cached box is larger than the union of the boxes of its children
C24_Witness ==
    /\ ~panicked
    /\ ret.op \in { "remove", "lookup_and_remove" }
    /\ root.depth >= 2
    /\ \E d \in Directories(root) :
          /\ Len(d.children) > 0
          /\ Covers(d)
          /\ d.bounding_box # Some(mbr_of(d.children))

====
